---- MODULE Spec2Model ----
(***************************************************************************)
(* Model of src/main.py: the entitlement guard (pro_guest_limiter), the    *)
(* document assembler (generate_pptx, add_slide_content, add_watermark),   *)
(* the billing event handler (revenuecat_webhook) and the key-value store  *)
(* they share.                                                             *)
(*                                                                         *)
(* Strings are sequences of tokens (a token stands for a run of            *)
(* characters), so that replace, lower, slicing and substring tests are    *)
(* computed rather than assumed.                                           *)
(***************************************************************************)
EXTENDS Integers, Sequences, FiniteSets, TLC

VARIABLES
    r,          \* the module-level store client (main.py:50): "client" or "none"
    secret,     \* os.getenv("REVENUECAT_WEBHOOK_SECRET"); <<>> when unset
    pro,        \* store keys pro:<id>      : id -> [val, ttl]
    guest,      \* store keys guest:<fp>    : fp -> [val, ttl]
    history,    \* store keys history:<id>  : id -> [list, ttl]
    inflight,   \* requests the middleware passed to call_next, not yet handled
    now,        \* int(time.time()), seconds since the process started
    last,       \* the operation that ran last and what it answered
    nreq,       \* generate requests received so far
    nev,        \* webhook requests received so far
    nelapse     \* time steps taken so far

vars == <<r, secret, pro, guest, history, inflight, now, last,
          nreq, nev, nelapse>>

----------------------------------------------------------------------------
(* Bounds of the model *)

MaxRequests == 3
MaxEvents == 2
MaxElapse == 1
MaxInflight == 1
MaxSlides == 2

----------------------------------------------------------------------------
(* Program constants *)

FREE_LIMIT == 1
GUEST_TTL == 2592000
PRO_TTL == 31536000
HISTORY_TTL_PRO == 2592000
HISTORY_TTL_GUEST == 3600
MAX_HISTORY_PRO == 50
MAX_HISTORY_GUEST == 3
UA_MAX == 100
PREFIX_LEN == 8

\* Redis' TTL conventions: -1 for a key without expiry.
NO_EXPIRY == -1

----------------------------------------------------------------------------
(* Strings as token sequences *)

RECURSIVE Remove(_, _)
\* str.replace(tok, ""): every occurrence of the token is dropped.
Remove(s, tok) ==
    IF s = <<>> THEN <<>>
    ELSE IF Head(s) = tok THEN Remove(Tail(s), tok)
    ELSE <<Head(s)>> \o Remove(Tail(s), tok)

\* s[:n]
Take(s, n) == IF Len(s) <= n THEN s ELSE SubSeq(s, 1, n)

\* str.lower() on one token
LowerTok(t) ==
    CASE t = "LIFETIME" -> "lifetime"
      [] t = "Lifetime" -> "lifetime"
      [] t = "PRO" -> "pro"
      [] OTHER -> t

\* `needle in token`, for the needles the program searches for
TokContains(t, needle) ==
    CASE needle = "lifetime" -> t \in {"lifetime", "lifetimes"}
      [] needle = "149" -> t \in {"149", "1499"}
      [] OTHER -> t = needle

Contains(s, needle) == \E i \in 1..Len(s) : TokContains(s[i], needle)

Lower(s) == [i \in 1..Len(s) |-> LowerTok(s[i])]

----------------------------------------------------------------------------
(* The store: get/set/delete/incr/expire on one key *)

Exists(store, k) == k \in DOMAIN store

Put(store, k, rec) ==
    [x \in (DOMAIN store) \cup {k} |-> IF x = k THEN rec ELSE store[x]]

Del(store, k) == [x \in (DOMAIN store) \ {k} |-> store[x]]

\* r.get(key): the value, or None ("" here) for an absent key
Get(store, k) == IF Exists(store, k) THEN store[k].val ELSE ""

\* r.set(key, value): no expiry
Set(store, k, v) == Put(store, k, [val |-> v, ttl |-> NO_EXPIRY])

\* r.setex(key, seconds, value)
Setex(store, k, seconds, v) == Put(store, k, [val |-> v, ttl |-> seconds])

\* Variant of Incr: an absent key is created at 0.
Incr_absent_zero(store, k) ==
    IF Exists(store, k) THEN Put(store, k, [store[k] EXCEPT !.val = @ + 1])
    ELSE Put(store, k, [val |-> 0, ttl |-> NO_EXPIRY])

\* r.incr(key): an absent key counts from 0 and is created without expiry
Incr(store, k) ==
    IF Exists(store, k) THEN Put(store, k, [store[k] EXCEPT !.val = @ + 1])
    ELSE Put(store, k, [val |-> 1, ttl |-> NO_EXPIRY])

\* r.expire(key, seconds): no effect on an absent key
Expire(store, k, seconds) ==
    IF Exists(store, k) THEN Put(store, k, [store[k] EXCEPT !.ttl = seconds])
    ELSE store

\* d seconds pass: every key with an expiry loses d seconds and is deleted
\* by the store when none is left.
Age(store, d) ==
    LET alive == {k \in DOMAIN store :
                     store[k].ttl = NO_EXPIRY \/ store[k].ttl > d}
    IN [k \in alive |->
           IF store[k].ttl = NO_EXPIRY THEN store[k]
           ELSE [store[k] EXCEPT !.ttl = @ - d]]

----------------------------------------------------------------------------
(* Requests *)

U1 == <<"u", "1">>
Users == {U1}

IP1 == <<"10.0.0.1">>
IP2 == <<"10.0.0.2">>
IPs == {IP1, IP2}
UA1 == <<"Mozilla">>
UAs == {UA1}

\* hashlib.md5(...).hexdigest(), taken as injective on its input
Md5(s) == <<"md5">> \o s

\* request.client.host.replace("::ffff:", ""), user-agent[:100], f"{ip}:{ua}"
create_guest_id(ip, ua) ==
    Md5(Remove(ip, "::ffff:") \o <<":">> \o Take(ua, UA_MAX))

\* The generate requests of the model: X-RC-App-User-ID (<<>>: no header),
\* the client address, the user-agent, and whether an Authorization header
\* is sent.
Requests ==
    [rc : Users \cup {<<>>}, ip : {IP1}, ua : UAs, auth : {FALSE}]
    \cup {[rc |-> <<>>, ip |-> IP2, ua |-> UA1, auth |-> TRUE]}

----------------------------------------------------------------------------
(* Entitlement guard: the middleware pro_guest_limiter *)

\* request.state as generate_pptx reads it: the getattr defaults (False, 0)
\* stand for the attributes the middleware did not set; guest_id <<>> stands
\* for an unset guest_id.
NoState == [is_pro |-> FALSE, guest_count |-> 0, guest_id |-> <<>>]

\* Where a store call of the middleware may raise (a Redis error).
GuardFaults == {"none", "get", "incr", "expire"}

LimitReached(count, guest_id) ==
    [status_code |-> 402, status |-> "limit_reached", used |-> count,
     limit |-> FREE_LIMIT, guest_id |-> guest_id, upgrade_url |-> "/upgrade"]

CallNext == [status_code |-> 0, status |-> "call_next"]

\* Variant of IsPro: the record is looked up under a key nothing is
\* stored at.
IsPro_wrong_key(store, rc_user_id) == FALSE

\* rc_user_id and r.get(f"pro:{rc_user_id}"): both truthy
IsPro(store, rc_user_id) == rc_user_id # <<>> /\ Get(store, rc_user_id) # ""

\* Variant of OverLimit: the comparison is off by one.
OverLimit_lenient(count) == count > FREE_LIMIT + 1

\* count > FREE_LIMIT
OverLimit(count) == count > FREE_LIMIT

\* The middleware on one POST /api/generate-pptx: the guest store it leaves,
\* whether it calls call_next, the request.state it hands on, and its own
\* response when it answers itself.
pro_guest_limiter(q, fault) ==
    LET guest_id == create_guest_id(q.ip, q.ua)
        pass(st, g, raised) ==
            [guest |-> g, admitted |-> TRUE, st |-> st, resp |-> CallNext,
             raised |-> raised]
    IN
    IF r = "none" THEN pass(NoState, guest, FALSE)
    ELSE IF q.rc # <<>> /\ fault = "get" THEN pass(NoState, guest, TRUE)
    ELSE IF IsPro(pro, q.rc)
         THEN pass([NoState EXCEPT !.is_pro = TRUE], guest, FALSE)
    ELSE IF fault = "incr" THEN pass(NoState, guest, TRUE)
    ELSE LET g1 == Incr(guest, guest_id)
             count == g1[guest_id].val
         IN
         IF fault = "expire" THEN pass(NoState, g1, TRUE)
         ELSE LET g2 == Expire(g1, guest_id, GUEST_TTL)
                  st == [is_pro |-> FALSE, guest_count |-> count,
                         guest_id |-> guest_id]
              IN
              IF OverLimit(count)
              THEN [guest |-> g2, admitted |-> FALSE, st |-> st,
                    resp |-> LimitReached(count, guest_id), raised |-> FALSE]
              ELSE pass(st, g2, FALSE)

\* The billing events that ran last (at most two, the newer first), with
\* nothing but generate requests reaching the middleware since.
Trail == IF last.op \in {"webhook", "guard"} THEN last.trail ELSE <<>>

\* The requests in flight are told apart by a slot number.
FreeSlot ==
    CHOOSE i \in 1..(MaxInflight + 1) : \A x \in inflight : x.id # i

\* A generate request arrives and runs through the middleware.  At most
\* MaxInflight requests are between the middleware and the endpoint.  `last`
\* keeps the request as it was handled (q, fault) and the answer.
Middleware(q, fault) ==
    /\ nreq < MaxRequests
    /\ Cardinality(inflight) < MaxInflight
    /\ nreq' = nreq + 1
    /\ \E out \in {pro_guest_limiter(q, fault)} :
       /\ guest' = out.guest
       /\ inflight' =
            IF out.admitted
            THEN inflight \cup {[id |-> FreeSlot, q |-> q, st |-> out.st]}
            ELSE inflight
       /\ last' = [op |-> "guard", status_code |-> out.resp.status_code,
                   status |-> out.resp.status, q |-> q, fault |-> fault,
                   trail |-> Trail]
    /\ UNCHANGED <<r, secret, pro, history, now, nev, nelapse>>

----------------------------------------------------------------------------
(* Time *)

ElapseChoices == {PRO_TTL}

\* d seconds pass; the store drops the keys whose expiry is reached.
Elapse(d) ==
    /\ nelapse < MaxElapse
    /\ nelapse' = nelapse + 1
    /\ now' = now + d
    /\ pro' = Age(pro, d)
    /\ guest' = Age(guest, d)
    /\ history' = Age(history, d)
    /\ last' = [op |-> "elapse"]
    /\ UNCHANGED <<r, secret, inflight, nreq, nev>>

----------------------------------------------------------------------------
(* Billing event handler: revenuecat_webhook *)

BEARER == "Bearer "
SECRET == <<"s3cret">>

\* Authorization headers of the model (<<>>: no header).
AuthHeaders ==
    { <<>>, <<BEARER>> \o SECRET, <<BEARER, "wrong">>, SECRET }

\* hmac.compare_digest on two str
compare_digest(a, b) == a = b

verify_revenuecat_signature(auth_header) ==
    IF auth_header = <<>> THEN TRUE
    ELSE IF secret = <<>> THEN TRUE
    ELSE compare_digest(Remove(auth_header, BEARER), secret)

EventTypes ==
    {"TEST", "INITIAL_PURCHASE", "RENEWAL", "CANCELLATION", "EXPIRATION",
     "BILLING_ISSUE", ""}

\* The event types whose branch calls the store.
StoreEventTypes ==
    {"INITIAL_PURCHASE", "RENEWAL", "CANCELLATION", "EXPIRATION"}

ProductIds ==
    { <<"PRO", "_", "LIFETIME">>, <<"pro", "_", "149">>,
      <<"pro", "_", "monthly">> }

Event(type, app_user_id, product_id) ==
    [event |-> TRUE, type |-> type, app_user_id |-> app_user_id,
     product_id |-> product_id]

\* The payloads of the model: one without "event", events with a field
\* missing, and the events of every type (product_id defaults to "").
NoEvent == [event |-> FALSE, type |-> "", app_user_id |-> <<>>,
            product_id |-> <<>>]
Payloads ==
    {NoEvent, Event("", U1, <<>>), Event("RENEWAL", <<>>, <<>>)}
    \cup {Event("INITIAL_PURCHASE", u, p) : u \in Users, p \in ProductIds}
    \cup {Event(t, u, <<>>) : t \in EventTypes \ {"", "INITIAL_PURCHASE"},
                              u \in Users}

\* "lifetime" in product_id.lower() or "149" in product_id
IsLifetimeProduct(product_id) ==
    Contains(Lower(product_id), "lifetime") \/ Contains(product_id, "149")

\* Variant of Await: r is the asyncio client and await gives the value.
Await_returns(v) == [raised |-> FALSE, value |-> v]

\* `await v`, v being what a call on r returned.  r is the synchronous client
\* of redis.from_url (main.py:39; the middleware uses its results unawaited,
\* main.py:550 and 558), so the call has run and returned an int, a bool or
\* bytes when await gets it, and await raises TypeError on such a value.
Await(v) == [raised |-> TRUE, value |-> v]

\* The branches of the try block.  Each gives the entitlement store it
\* leaves and whether an exception left the block.  fault: the first store
\* call raises a Redis error and has no effect.
Ran(store, awaited) == [store |-> store, raised |-> awaited.raised]
Raised(store) == [store |-> store, raised |-> TRUE]
\* Variant of Done: the block is left by an exception all the same.
Done_raising(store) == [store |-> store, raised |-> TRUE]
Done(store) == [store |-> store, raised |-> FALSE]

\* Variant of InitialPurchase: r.exists is called without await.
InitialPurchase_exists_unawaited(store, key, product_id, fault) ==
    IF fault THEN Raised(store)
    ELSE IF ~Exists(store, key)
         THEN IF IsLifetimeProduct(product_id)
              THEN Ran(Set(store, key, "lifetime"), Await(TRUE))
              ELSE Ran(Setex(store, key, PRO_TTL, "subscription"),
                       Await(TRUE))
         ELSE Done(store)

InitialPurchase(store, key, product_id, fault) ==
    IF fault THEN Raised(store)
    ELSE LET ex == Await(Exists(store, key)) IN
         IF ex.raised THEN Raised(store)
         ELSE IF ~ex.value
              THEN IF IsLifetimeProduct(product_id)
                   THEN Ran(Set(store, key, "lifetime"), Await(TRUE))
                   ELSE Ran(Setex(store, key, PRO_TTL, "subscription"),
                            Await(TRUE))
              ELSE Done(store)

Renewal(store, key, fault) ==
    IF fault THEN Raised(store)
    ELSE Ran(Setex(store, key, PRO_TTL, "subscription"), Await(TRUE))

Cancellation(store, key, fault) ==
    IF fault THEN Raised(store)
    ELSE LET status == Await(Get(store, key)) IN
         IF status.raised THEN Raised(store)
         ELSE IF status.value = "subscription"
              THEN Ran(Del(store, key), Await(1))
              ELSE Done(store)

Expiration(store, key, fault) ==
    IF fault THEN Raised(store)
    ELSE Ran(Del(store, key), Await(1))

\* The handler on one POST /api/revenuecat-webhook: the entitlement store it
\* leaves and its response; tried: the try block was entered.
revenuecat_webhook(auth_header, payload, fault) ==
    LET answer(store, code, status, tried) ==
            [pro |-> store, status_code |-> code, status |-> status,
             tried |-> tried]
        key == payload.app_user_id
    IN
    IF ~verify_revenuecat_signature(auth_header)
    THEN answer(pro, 401, "Invalid auth", FALSE)
    ELSE IF r = "none" THEN answer(pro, 200, "redis_unavailable", FALSE)
    ELSE IF ~payload.event THEN answer(pro, 200, "invalid_payload", FALSE)
    ELSE IF payload.type = "" \/ payload.app_user_id = <<>>
         THEN answer(pro, 200, "missing_fields", FALSE)
    ELSE IF payload.type = "TEST" THEN answer(pro, 200, "test_success", TRUE)
    ELSE LET ran ==
                 CASE payload.type = "INITIAL_PURCHASE" ->
                          InitialPurchase(pro, key, payload.product_id, fault)
                   [] payload.type = "RENEWAL" -> Renewal(pro, key, fault)
                   [] payload.type = "CANCELLATION" ->
                          Cancellation(pro, key, fault)
                   [] payload.type = "EXPIRATION" ->
                          Expiration(pro, key, fault)
                   [] OTHER -> Done(pro)
         IN answer(ran.store, 200, IF ran.raised THEN "error" ELSE "ok", TRUE)

\* What the handler was asked to do to one identity's record, and whether
\* the record was absent then: kept in `last` (see Trail).
BillingEntry(payload, store) ==
    [type |-> payload.type, user |-> payload.app_user_id,
     lifetime |-> IsLifetimeProduct(payload.product_id),
     absent |-> ~Exists(store, payload.app_user_id)]

\* A billing event arrives and is handled.
Webhook(auth_header, payload, fault) ==
    /\ nev < MaxEvents
    /\ nev' = nev + 1
    /\ \E out \in {revenuecat_webhook(auth_header, payload, fault)} :
       /\ pro' = out.pro
       /\ last' = [op |-> "webhook", status_code |-> out.status_code,
                   status |-> out.status,
                   trail |-> IF out.tried /\ payload.type # "TEST"
                             THEN Take(<<BillingEntry(payload, pro)>> \o Trail, 2)
                             ELSE <<>>]
    /\ UNCHANGED <<r, secret, guest, history, inflight, now, nreq, nelapse>>

----------------------------------------------------------------------------
(* Slides, shapes and paragraphs *)

\* A paragraph: its text, its level, and which object it is (orig: it was in
\* the text frame before binding; n: its number among those).
Para(text, level, orig, n) ==
    [text |-> text, level |-> level, orig |-> orig, n |-> n]

\* A shape: whether it has a text frame, its vertical offset, its paragraphs.
TextShape(name, top, paragraphs) ==
    [name |-> name, has_text_frame |-> TRUE, top |-> top,
     paragraphs |-> paragraphs]
Picture(name, top) ==
    [name |-> name, has_text_frame |-> FALSE, top |-> top,
     paragraphs |-> <<>>]

\* A placeholder of a slide made by add_slide: one empty paragraph.
Placeholder(name, top) == TextShape(name, top, <<Para("", 0, TRUE, 1)>>)

RECURSIVE InsertByTop(_, _, _)
\* Insert index i into the index list `sorted`, after every index whose
\* shape's top is not greater (list.sort is stable).
InsertByTop(shapes, sorted, i) ==
    IF sorted = <<>> THEN <<i>>
    ELSE IF shapes[Head(sorted)].top <= shapes[i].top
         THEN <<Head(sorted)>> \o InsertByTop(shapes, Tail(sorted), i)
         ELSE <<i>> \o sorted

RECURSIVE SortedTextShapes_tree_order(_, _)
\* Variant of SortedTextShapes: the text shapes in tree order, not sorted.
SortedTextShapes_tree_order(shapes, k) ==
    IF k = 0 THEN <<>>
    ELSE IF shapes[k].has_text_frame
         THEN Append(SortedTextShapes_tree_order(shapes, k - 1), k)
         ELSE SortedTextShapes_tree_order(shapes, k - 1)

RECURSIVE SortedTextShapes(_, _)
\* The indices of the first k shapes that have a text frame, sorted by top:
\* [shape for shape in slide.shapes if shape.has_text_frame], .sort(key=top)
SortedTextShapes(shapes, k) ==
    IF k = 0 THEN <<>>
    ELSE IF shapes[k].has_text_frame
         THEN InsertByTop(shapes, SortedTextShapes(shapes, k - 1), k)
         ELSE SortedTextShapes(shapes, k - 1)

\* p.text = text on the first paragraph of a shape
SetFirstText(shape, text) ==
    [shape EXCEPT !.paragraphs[1].text = text]

\* Variant of RemoveExtraParagraphs: nothing is removed.
RemoveExtraParagraphs_none(paragraphs) == paragraphs

RECURSIVE RemoveExtraParagraphs(_)
\* while len(paragraphs) > 1: remove paragraphs[1]
RemoveExtraParagraphs(paragraphs) ==
    IF Len(paragraphs) > 1
    THEN RemoveExtraParagraphs(<<paragraphs[1]>> \o SubSeq(paragraphs, 3, Len(paragraphs)))
    ELSE paragraphs

RECURSIVE Bullets_all_new(_, _, _)
\* Variant of Bullets: every bullet gets a new paragraph, the first one too.
Bullets_all_new(paragraphs, content, i) ==
    IF i > Len(content) THEN paragraphs
    ELSE Bullets_all_new(Append(paragraphs, Para(content[i], 0, FALSE, i)),
                         content, i + 1)

RECURSIVE Bullets(_, _, _)
\* for i, bullet in enumerate(content), from the i-th on (1-based here)
Bullets(paragraphs, content, i) ==
    IF i > Len(content) THEN paragraphs
    ELSE IF i = 1
         THEN Bullets([paragraphs EXCEPT ![1].text = content[1],
                                         ![1].level = 0], content, 2)
         ELSE Bullets(Append(paragraphs, Para(content[i], 0, FALSE, i)),
                      content, i + 1)

\* add_slide_content(slide, slide_data): the slide's shapes after binding, or
\* the exception it raises.
add_slide_content(shapes, slide_data) ==
    LET text_shapes == SortedTextShapes(shapes, Len(shapes))
        content == slide_data.content
        titled ==
            IF Len(text_shapes) >= 1
            THEN [shapes EXCEPT ![text_shapes[1]] =
                     SetFirstText(@, slide_data.title)]
            ELSE shapes
        ok(sh) == [raised |-> FALSE, shapes |-> sh]
    IN
    IF slide_data.type = "title"
    THEN IF Len(text_shapes) >= 2 /\ content # <<>>
         THEN ok([titled EXCEPT ![text_shapes[2]] =
                     SetFirstText(@, content[1])])
         ELSE ok(titled)
    ELSE IF Len(text_shapes) >= 2
         THEN LET b == text_shapes[2]
                  kept == RemoveExtraParagraphs(titled[b].paragraphs)
              IN
              IF slide_data.format = "paragraph"
              THEN IF content = <<>>
                   THEN [raised |-> TRUE, shapes |-> shapes]
                   ELSE ok([titled EXCEPT ![b].paragraphs =
                              [kept EXCEPT ![1].text = content[1],
                                           ![1].level = 0]])
              ELSE ok([titled EXCEPT ![b].paragraphs =
                         Bullets(kept, content, 1)])
         ELSE ok(titled)

----------------------------------------------------------------------------
(* Document assembler: generate_pptx *)

WATERMARK_TEXT == "Made with Voice-to-PPT Free"
\* Inches(6.5), in tenths of an inch
WATERMARK_TOP == 65

\* A slide layout: its name and the placeholders add_slide clones from it.
Layout(name, placeholders) == [name |-> name, placeholders |-> placeholders]

\* The i-th slide of a template file (prs.slides[i]) with its slide_layout.
Exemplar(i, layout) ==
    [slide |-> [origin |-> <<"exemplar", i>>, layout |-> layout.name,
                shapes |-> layout.placeholders],
     slide_layout |-> layout]

\* prs.slides.add_slide(layout), for the i-th spec of the outline
add_slide(layout, i) ==
    [origin |-> <<"spec", i>>, layout |-> layout.name,
     shapes |-> layout.placeholders]

KnownTemplates ==
    {"geometric", "streamline", "swiss", "momentum", "material", "slate",
     "paperback"}

\* template_files.get(template_id, template_files["slate"])
TemplatePath(template_id) ==
    IF template_id \in KnownTemplates
    THEN <<"templates/", template_id, ".pptx">>
    ELSE <<"templates/", "slate", ".pptx">>

RECURSIVE BindAll(_, _, _, _)
\* for slide_data in slides_data["slides"]: add_slide, add_slide_content.
\* tpl: the template file, its exemplars paired with their layouts.
BindAll(slides, specs, i, tpl) ==
    IF i > Len(specs) THEN [raised |-> FALSE, slides |-> slides]
    ELSE LET template == IF specs[i].type = "title" THEN tpl[1] ELSE tpl[2]
             slide == add_slide(template.slide_layout, i)
             bound == add_slide_content(slide.shapes, specs[i])
         IN
         IF bound.raised THEN [raised |-> TRUE, slides |-> slides]
         ELSE BindAll(Append(slides, [slide EXCEPT !.shapes = bound.shapes]),
                      specs, i + 1, tpl)

\* del lst[i], i counted from 0
DelIndex(lst, i) == SubSeq(lst, 1, i) \o SubSeq(lst, i + 2, Len(lst))

\* Variant of RemoveExemplars: del r_id_list[0]; del r_id_list[1]
RemoveExemplars_ascending(slides) == DelIndex(DelIndex(slides, 0), 1)

\* r_id_list = prs.slides._sldIdLst; del r_id_list[1]; del r_id_list[0]
RemoveExemplars(slides) == DelIndex(DelIndex(slides, 1), 0)

\* add_watermark(prs, text): one text box on every slide
add_watermark(slides, text) ==
    [i \in 1..Len(slides) |->
        [slides[i] EXCEPT !.shapes =
            Append(@, TextShape("watermark", WATERMARK_TOP,
                                <<Para(text, 0, FALSE, 1)>>))]]

\* r.lpush(key, value)
LPush(store, k, v) ==
    IF Exists(store, k) THEN Put(store, k, [store[k] EXCEPT !.val = <<v>> \o @])
    ELSE Put(store, k, [val |-> <<v>>, ttl |-> NO_EXPIRY])

\* r.ltrim(key, 0, stop): keeps the elements 0..stop; an emptied list is no key
LTrim(store, k, stop) ==
    IF ~Exists(store, k) THEN store
    ELSE IF stop < 0 THEN Del(store, k)
    ELSE Put(store, k, [store[k] EXCEPT !.val = Take(@, stop + 1)])

\* is_guest and guest_count >= FREE_LIMIT
ShouldWatermark(is_guest, guest_count) ==
    is_guest /\ guest_count >= FREE_LIMIT

\* Variant of MaxHistory: one entry more is kept.
MaxHistory_one_more(is_pro) ==
    IF is_pro THEN MAX_HISTORY_PRO + 1 ELSE MAX_HISTORY_GUEST + 1

\* max_history = 50 if is_pro else 3
MaxHistory(is_pro) == IF is_pro THEN MAX_HISTORY_PRO ELSE MAX_HISTORY_GUEST

\* Variant of write_history: the calls are wrapped in a try block of their
\* own that swallows the exception.
write_history_swallow(store, user_id, ppt_info, is_pro, fault) ==
    LET ttl == IF is_pro THEN HISTORY_TTL_PRO ELSE HISTORY_TTL_GUEST
        h1 == LPush(store, user_id, ppt_info)
        h2 == LTrim(h1, user_id, MaxHistory(is_pro) - 1)
        h3 == Expire(h2, user_id, ttl)
    IN
    IF fault = "lpush" THEN [raised |-> FALSE, store |-> store]
    ELSE IF fault = "ltrim" THEN [raised |-> FALSE, store |-> h1]
    ELSE IF fault = "expire" THEN [raised |-> FALSE, store |-> h2]
    ELSE [raised |-> FALSE, store |-> h3]

\* The history write: lpush, ltrim(0, max_history - 1), expire.  Gives the
\* store it leaves and whether a call raised (fault names the call).
write_history(store, user_id, ppt_info, is_pro, fault) ==
    LET ttl == IF is_pro THEN HISTORY_TTL_PRO ELSE HISTORY_TTL_GUEST
        h1 == LPush(store, user_id, ppt_info)
        h2 == LTrim(h1, user_id, MaxHistory(is_pro) - 1)
        h3 == Expire(h2, user_id, ttl)
    IN
    IF fault = "lpush" THEN [raised |-> TRUE, store |-> store]
    ELSE IF fault = "ltrim" THEN [raised |-> TRUE, store |-> h1]
    ELSE IF fault = "expire" THEN [raised |-> TRUE, store |-> h2]
    ELSE [raised |-> FALSE, store |-> h3]

\* Where generate_pptx may be made to raise from outside: reading the
\* template file, the watermark pass, writing the file, a store call.
HandlerFaults ==
    {"none", "load", "watermark", "save", "lpush", "ltrim", "expire"}

ErrorResult(message) == [status |-> "error", message |-> message]

\* generate_pptx on one admitted request x = [id, q, st]: its result, the
\* history store it leaves, the slide list it built and what it did on the
\* way (saved: prs.save returned; watermarked: add_watermark ran).
\* body: the SlidesRequest; tpl: the presentation at the template's path,
\* its slides paired with their layouts.  TemplatePath(body.templateId) is
\* the path it is read from.  `last` keeps the request as it was handled (x,
\* body, tpl, fault) and doc, the slide list of the file prs.save wrote.
generate_pptx(x, body, tpl, fault) ==
    LET is_pro == x.st.is_pro
        guest_count == IF is_pro THEN 0 ELSE x.st.guest_count
        is_guest == ~is_pro /\ ~x.q.auth
        template_id == body.templateId
        rc_user_id == x.q.rc
        user_id ==
            IF rc_user_id # <<>> THEN rc_user_id
            ELSE IF x.st.guest_id # <<>> THEN x.st.guest_id
            ELSE <<"guest-", now>>
        mark == ShouldWatermark(is_guest, guest_count)
        timestamp == now
        filename == [prefix |-> Take(user_id, PREFIX_LEN),
                     template |-> template_id, timestamp |-> timestamp]
        ppt_info == [filename |-> filename, template |-> template_id,
                     created |-> timestamp, url |-> <<"/download/", filename>>,
                     is_pro |-> is_pro]
        fail(message, slides, saved, watermarked, store) ==
            [resp |-> ErrorResult(message), history |-> store,
             slides |-> slides, saved |-> saved, watermarked |-> watermarked,
             user_id |-> user_id]
    IN
    IF fault = "load"
    THEN fail("cannot open template", <<>>, FALSE, FALSE, history)
    ELSE IF Len(tpl) < 2
    THEN fail("list index out of range", <<>>, FALSE, FALSE, history)
    ELSE LET exemplars == [i \in 1..Len(tpl) |-> tpl[i].slide]
             bound == BindAll(exemplars, body.slides, 1, tpl)
         IN
         IF bound.raised
         THEN fail("list index out of range", bound.slides, FALSE, FALSE,
                   history)
         ELSE LET pruned == RemoveExemplars(bound.slides)
                  final == IF mark THEN add_watermark(pruned, WATERMARK_TEXT)
                           ELSE pruned
                  written == write_history(history, user_id, ppt_info,
                                           is_pro, fault)
              IN
              IF mark /\ fault = "watermark"
              THEN fail("watermark failed", pruned, FALSE, FALSE, history)
              ELSE IF fault = "save"
              THEN fail("cannot write file", final, FALSE, mark, history)
              ELSE IF r = "none"
              THEN fail("'NoneType' object has no attribute 'lpush'",
                        final, TRUE, mark, history)
              ELSE IF written.raised
              THEN fail("store error", final, TRUE, mark, written.store)
              ELSE [resp |-> [status |-> "success",
                              downloadUrl |-> <<"/download/", filename>>,
                              is_pro |-> is_pro, is_guest |-> is_guest,
                              guest_count |-> guest_count,
                              user_id |-> user_id, show_upgrade |-> mark,
                              watermark |-> mark],
                    history |-> written.store, slides |-> final,
                    saved |-> TRUE, watermarked |-> mark,
                    user_id |-> user_id]

\* An admitted request reaches the endpoint and is handled.
Handler(x, body, tpl, fault) ==
    /\ x \in inflight
    /\ inflight' = inflight \ {x}
    /\ \E out \in {generate_pptx(x, body, tpl, fault)} :
       /\ history' = out.history
       /\ last' = [op |-> "generate", status_code |-> 200,
                   status |-> out.resp.status, saved |-> out.saved,
                   doc |-> IF out.saved THEN out.slides ELSE <<>>,
                   x |-> x, body |-> body, tpl |-> tpl, fault |-> fault]
    /\ UNCHANGED <<r, secret, pro, guest, now, nreq, nev, nelapse>>

----------------------------------------------------------------------------
(* Inputs of the assembler *)

TitleLayout ==
    Layout("Title Slide",
           <<Placeholder("title", 20), Placeholder("subtitle", 40)>>)
\* The body placeholder comes first in the shape tree and second by top.
ContentLayout ==
    Layout("Title and Content",
           <<Placeholder("body", 30), Placeholder("title", 10)>>)
TitleOnlyLayout == Layout("Title Only", <<Placeholder("title", 10)>>)

\* Template files: with the two exemplars, with a third slide, with one slide.
Template2 == <<Exemplar(0, TitleLayout), Exemplar(1, ContentLayout)>>
Template3 == Template2 \o <<Exemplar(2, TitleOnlyLayout)>>
Template1 == <<Exemplar(0, TitleLayout)>>
Templates == {Template1, Template2, Template3}

SlideSpec(title, type, format, content) ==
    [title |-> title, type |-> type, format |-> format, content |-> content]

Body(templateId, slides) == [templateId |-> templateId, slides |-> slides]

TitleSpec == SlideSpec("Deck", "title", "bullets", <<"by me">>)
BulletSpec == SlideSpec("Points", "content", "bullets", <<"a", "b">>)
EmptyParagraphSpec == SlideSpec("Text", "content", "paragraph", <<>>)

\* The request bodies of the system specification.
Bodies ==
    { Body("swiss", <<TitleSpec, BulletSpec>>),
      Body("swiss", <<TitleSpec, EmptyParagraphSpec>>) }

----------------------------------------------------------------------------
(* The generation system: the guard, the endpoint and time.  The entitlement
   records are those the store holds when the process starts. *)

\* The entitlement records the store may hold when the process starts: the
\* store outlives the process, and no run of this program writes "lifetime"
\* (see Await), so a lifetime record is one that was there before.
InitialRecords ==
    { <<>>,
      Setex(<<>>, U1, PRO_TTL, "subscription"),
      Set(<<>>, U1, "lifetime") }

InitStore ==
    /\ pro \in InitialRecords
    /\ guest = <<>>
    /\ history = <<>>
    /\ inflight = {}
    /\ now = 0
    /\ last = [op |-> "init"]
    /\ nreq = 0
    /\ nev = 0
    /\ nelapse = 0

Init ==
    /\ r \in {"client", "none"}
    /\ secret = SECRET
    /\ InitStore

\* A store call can only raise where the request reaches one.
GuardFaultsFor(q) ==
    IF r = "none" THEN {"none"}
    ELSE IF q.rc = <<>> THEN GuardFaults \ {"get"}
    ELSE GuardFaults

Next ==
    \/ \E q \in Requests : \E fault \in GuardFaultsFor(q) :
          Middleware(q, fault)
    \/ \E x \in inflight, body \in Bodies :
          Handler(x, body, Template2, "none")
    \/ \E d \in ElapseChoices : Elapse(d)

Spec == Init /\ [][Next]_vars

----------------------------------------------------------------------------
(* The billing system: the webhook (every payload under the right
   credential, every credential on a RENEWAL), time, and the generate
   requests of one caller who sends the identity's header. *)

InitBilling ==
    /\ r \in {"client", "none"}
    /\ secret \in {<<>>, SECRET}
    /\ InitStore

WebhookFaultsFor(p) ==
    IF r = "client" /\ p.type \in StoreEventTypes /\ p.app_user_id # <<>>
    THEN BOOLEAN ELSE {FALSE}

BillingRequest == [rc |-> U1, ip |-> IP1, ua |-> UA1, auth |-> FALSE]

NextBilling ==
    \/ \E p \in Payloads : \E fault \in WebhookFaultsFor(p) :
          Webhook(<<BEARER>> \o SECRET, p, fault)
    \/ \E h \in AuthHeaders : Webhook(h, Event("RENEWAL", U1, <<>>), FALSE)
    \/ \E d \in ElapseChoices : Elapse(d)
    \/ Middleware(BillingRequest, "none")
    \/ \E x \in inflight :
          Handler(x, Body("swiss", <<TitleSpec>>), Template2, "none")

SpecBilling == InitBilling /\ [][NextBilling]_vars

----------------------------------------------------------------------------
(* The assembly system: one caller with the identity's header and one
   without; outlines of up to MaxSlides slide specs on the template file of
   two exemplars, one outline on the other template files, and a failure at
   every step of generate_pptx on that outline. *)

AssemblyRequests ==
    { [rc |-> U1, ip |-> IP1, ua |-> UA1, auth |-> FALSE],
      [rc |-> <<>>, ip |-> IP1, ua |-> UA1, auth |-> FALSE] }

SpecKinds == {TitleSpec, BulletSpec}

\* The outlines that bind, and one with a slide spec that does not.
Outlines ==
    UNION {[1..n -> SpecKinds] : n \in 0..MaxSlides}
    \cup {<<TitleSpec, EmptyParagraphSpec>>}

AssemblyBodies == {Body("swiss", o) : o \in Outlines}

NextAssembly ==
    \/ \E q \in AssemblyRequests : Middleware(q, "none")
    \/ \E x \in inflight, body \in AssemblyBodies :
          Handler(x, body, Template2, "none")
    \/ \E x \in inflight, tpl \in Templates \ {Template2} :
          Handler(x, Body("swiss", <<TitleSpec, BulletSpec>>), tpl, "none")
    \/ \E x \in inflight, fault \in HandlerFaults \ {"none"} :
          Handler(x, Body("swiss", <<TitleSpec, BulletSpec>>), Template2,
                  fault)

SpecAssembly == Init /\ [][NextAssembly]_vars

----------------------------------------------------------------------------
(* The history system: the identity's history list holds the entries of
   earlier generations when the run starts; the identity generates from two
   addresses, with or without an entitlement record. *)

HISTORY_STEP == 60

\* An entry written by an earlier generation of a paying caller.
OldEntry(k) ==
    [filename |-> [prefix |-> Take(U1, PREFIX_LEN), template |-> "swiss",
                   timestamp |-> 0 - k],
     template |-> "swiss", created |-> 0 - k,
     url |-> <<"/download/", [prefix |-> Take(U1, PREFIX_LEN),
                              template |-> "swiss", timestamp |-> 0 - k]>>,
     is_pro |-> TRUE]

OldHistory(n) ==
    Put(<<>>, U1, [val |-> [k \in 1..n |-> OldEntry(k)],
                   ttl |-> HISTORY_TTL_PRO])

InitialHistories ==
    { <<>>, OldHistory(MAX_HISTORY_GUEST), OldHistory(MAX_HISTORY_PRO - 1),
      OldHistory(MAX_HISTORY_PRO) }

InitHistory ==
    /\ r = "client"
    /\ secret = SECRET
    /\ pro \in InitialRecords
    /\ guest = <<>>
    /\ history \in InitialHistories
    /\ inflight = {}
    /\ now = 0
    /\ last = [op |-> "init"]
    /\ nreq = 0
    /\ nev = 0
    /\ nelapse = 0

HistoryRequests ==
    { [rc |-> U1, ip |-> IP1, ua |-> UA1, auth |-> FALSE],
      [rc |-> U1, ip |-> IP2, ua |-> UA1, auth |-> FALSE] }

NextHistory ==
    \/ \E q \in HistoryRequests : Middleware(q, "none")
    \/ \E x \in inflight, fault \in {"none", "ltrim"} :
          Handler(x, Body("swiss", <<TitleSpec>>), Template2, fault)
    \/ Elapse(HISTORY_STEP)

SpecHistory == InitHistory /\ [][NextHistory]_vars

----------------------------------------------------------------------------
(* Properties *)

\* The step is a generate request running through the middleware.
GuardStep == nreq' = nreq + 1
\* The step is the endpoint handling an admitted request.
HandlerStep == inflight' # inflight /\ nreq' = nreq
\* The step is the webhook handling a billing event.
WebhookStep == nev' = nev + 1

\* The fingerprint counter of a request's caller (0: no counter).
CounterOf(store, q) ==
    IF Exists(store, create_guest_id(q.ip, q.ua))
    THEN store[create_guest_id(q.ip, q.ua)].val ELSE 0

\* A slide carries the watermark text box.
Marked(slide) ==
    \E i \in 1..Len(slide.shapes) :
        /\ slide.shapes[i].paragraphs # <<>>
        /\ slide.shapes[i].paragraphs[1].text = WATERMARK_TEXT

\* C1: a request of a non-paid caller, the store answering, counts one more
\* on the caller's fingerprint counter; when that makes it more than
\* FREE_LIMIT the middleware answers 402 "limit_reached" and the request
\* does not reach the endpoint; and a counter is only lowered or removed by
\* the passing of time, so every later request is answered the same.
C1_QuotaRejects ==
    [][ /\ (/\ GuardStep
             /\ last'.fault = "none"
             /\ r = "client"
             /\ ~(last'.q.rc # <<>> /\ Exists(pro, last'.q.rc)))
            => /\ CounterOf(guest', last'.q) = CounterOf(guest, last'.q) + 1
               /\ CounterOf(guest', last'.q) >= FREE_LIMIT + 1
                    => /\ last'.status_code = 402
                       /\ last'.status = "limit_reached"
                       /\ inflight' = inflight
        /\ \A g \in DOMAIN guest :
              \/ g \in DOMAIN guest' /\ guest'[g].val >= guest[g].val
              \/ nelapse' = nelapse + 1
      ]_vars

\* The (FREE_LIMIT + 2)-th request on one counter has just been rejected.
C1_Witness ==
    /\ last.op = "guard"
    /\ last.status_code = 402
    /\ \E g \in DOMAIN guest : guest[g].val = FREE_LIMIT + 2

\* C2: a generate request carrying an identity whose entitlement record
\* exists leaves every fingerprint counter as it was and is admitted; and
\* the endpoint, handling a request admitted as paid, saves a document
\* without the watermark and answers without the watermark and upgrade
\* flags.
C2_PaidNeverCounted ==
    [][ /\ (/\ GuardStep
             /\ r = "client"
             /\ last'.fault # "get"
             /\ last'.q.rc # <<>> /\ Exists(pro, last'.q.rc))
            => /\ guest' = guest
               /\ last'.status_code # 402
               /\ \E x \in inflight' \ inflight : x.st.is_pro
        /\ (HandlerStep /\ last'.x.st.is_pro) =>
            LET out == generate_pptx(last'.x, last'.body, last'.tpl,
                                     last'.fault)
            IN /\ guest' = guest
               /\ \A i \in 1..Len(last'.doc) : ~Marked(last'.doc[i])
               /\ ~out.watermarked
               /\ last'.status = "success"
                    => /\ ~out.resp.watermark
                       /\ ~out.resp.show_upgrade
                       /\ out.resp.guest_count = 0
      ]_vars

\* A paid generation completed while a fingerprint counter existed.
C2_Witness ==
    /\ last.op = "generate"
    /\ last.status = "success"
    /\ last.doc # <<>>
    /\ Exists(history, U1)
    /\ Head(history[U1].val).is_pro
    /\ DOMAIN guest # {}

\* C3: when the identity's record is "lifetime", it is still "lifetime"
\* without expiry after an INITIAL_PURCHASE or RENEWAL event for the
\* identity, whatever the product.
C3_LifetimeKept ==
    [][ WebhookStep =>
          \A h \in AuthHeaders, p \in Payloads, f \in BOOLEAN :
              (/\ Webhook(h, p, f)
               /\ p.type \in {"INITIAL_PURCHASE", "RENEWAL"}
               /\ Get(pro, p.app_user_id) = "lifetime")
              => /\ Exists(pro', p.app_user_id)
                 /\ pro'[p.app_user_id] = [val |-> "lifetime",
                                           ttl |-> NO_EXPIRY]
      ]_vars

\* The two billing events that ran last are a subscription INITIAL_PURCHASE
\* for the identity, its record absent, and then a CANCELLATION for it.
PurchasedThenCancelled(trail) ==
    /\ Len(trail) = 2
    /\ trail[1].type = "CANCELLATION" /\ trail[1].user = U1
    /\ trail[2].type = "INITIAL_PURCHASE" /\ trail[2].user = U1
    /\ ~trail[2].lifetime /\ trail[2].absent

\* C4: after an INITIAL_PURCHASE of a subscription product for an identity
\* without a record and then a CANCELLATION for it, the identity has no
\* record; and the generate request the identity makes next counts on its
\* fingerprint counter and is a guest's (rejected with 402, or handed on with
\* is_pro unset).
C4_CancelledIsGuest ==
    [][ /\ (/\ WebhookStep
             /\ last'.op = "webhook"
             /\ PurchasedThenCancelled(last'.trail))
            => ~Exists(pro', U1)
        /\ (/\ GuardStep
             /\ PurchasedThenCancelled(Trail)
             /\ last'.q = BillingRequest
             /\ r = "client")
            => /\ CounterOf(guest', BillingRequest)
                    = CounterOf(guest, BillingRequest) + 1
               /\ \/ last'.status_code = 402
                  \/ \E x \in inflight' \ inflight :
                        /\ ~x.st.is_pro
                        /\ x.st.guest_count = CounterOf(guest', BillingRequest)
      ]_vars

\* The identity generated right after its purchase and cancellation.
C4_Witness ==
    /\ last.op = "guard"
    /\ PurchasedThenCancelled(last.trail)
    /\ ~Exists(pro, U1)
    /\ CounterOf(guest, BillingRequest) >= 1

\* C5: an INITIAL_PURCHASE of a lifetime product for an identity without a
\* record stores "lifetime" without expiry; a CANCELLATION for an identity
\* whose record is "lifetime" leaves the record as it is; a CANCELLATION for
\* an identity without a record changes nothing.  (The events are those the
\* handler accepts and the store answers.)
C5_LifetimePurchase ==
    [][ WebhookStep =>
          \A h \in AuthHeaders, p \in Payloads :
              (/\ Webhook(h, p, FALSE)
               /\ r = "client"
               /\ verify_revenuecat_signature(h)
               /\ p.app_user_id # <<>>)
              => /\ (/\ p.type = "INITIAL_PURCHASE"
                     /\ IsLifetimeProduct(p.product_id)
                     /\ ~Exists(pro, p.app_user_id))
                    => /\ Exists(pro', p.app_user_id)
                       /\ pro'[p.app_user_id] = [val |-> "lifetime",
                                                 ttl |-> NO_EXPIRY]
                 /\ (/\ p.type = "CANCELLATION"
                     /\ Get(pro, p.app_user_id) = "lifetime")
                    => pro' = pro
                 /\ (/\ p.type = "CANCELLATION"
                     /\ ~Exists(pro, p.app_user_id))
                    => pro' = pro
      ]_vars

\* C6: a document saved from an outline of N slide specs, on a template file
\* of two exemplars, has exactly N slides; the i-th is the one made for the
\* i-th spec, on the layout of the first exemplar when the spec's type is
\* "title" and of the second otherwise; no exemplar is among them.
C6_SlidesFollowOutline ==
    [][ (HandlerStep /\ Len(last'.tpl) = 2 /\ last'.saved)
          => /\ Len(last'.doc) = Len(last'.body.slides)
             /\ \A i \in 1..Len(last'.doc) :
                   /\ last'.doc[i].origin = <<"spec", i>>
                   /\ last'.doc[i].layout =
                        IF last'.body.slides[i].type = "title"
                        THEN last'.tpl[1].slide_layout.name
                        ELSE last'.tpl[2].slide_layout.name
                   /\ last'.doc[i].origin[1] # "exemplar"
      ]_vars

\* A document of MaxSlides slides, a title and a content slide among them,
\* was saved.
C6_Witness ==
    /\ last.op = "generate"
    /\ last.saved
    /\ last.status = "success"
    /\ Len(last.tpl) = 2
    /\ Len(last.body.slides) = MaxSlides
    /\ Len(last.doc) = MaxSlides
    /\ \E i, j \in 1..Len(last.doc) :
          /\ last.doc[i].layout = TitleLayout.name
          /\ last.doc[j].layout = ContentLayout.name
    /\ \A i \in 1..Len(last.doc) : last.doc[i].origin = <<"spec", i>>

\* C7: without a store client, a generate request is admitted without a
\* count and without a 402; and the endpoint, given an outline that binds
\* and a template that loads, answers status "success" and saves a document
\* without the watermark.
C7_NoStoreSucceeds ==
    [][ /\ (GuardStep /\ r = "none")
            => /\ guest' = guest
               /\ last'.status_code # 402
               /\ \E x \in inflight' \ inflight :
                     x.q = last'.q /\ x.st = NoState
        /\ (/\ HandlerStep
             /\ r = "none"
             /\ last'.fault = "none"
             /\ Len(last'.tpl) >= 2
             /\ ~BindAll([i \in 1..Len(last'.tpl) |-> last'.tpl[i].slide],
                         last'.body.slides, 1, last'.tpl).raised)
            => /\ last'.status = "success"
               /\ last'.saved
               /\ \A i \in 1..Len(last'.doc) : ~Marked(last'.doc[i])
      ]_vars

\* A step of generate_pptx fails: the template does not load or lacks an
\* exemplar, a slide spec does not bind, the watermark pass, the save or a
\* history call raises, or there is no store client to write the history.
StepFails(x, body, tpl, f) ==
    \/ f \in {"load", "save", "lpush", "ltrim", "expire"}
    \/ Len(tpl) < 2
    \/ /\ Len(tpl) >= 2
       /\ BindAll([i \in 1..Len(tpl) |-> tpl[i].slide], body.slides, 1,
                  tpl).raised
    \/ f = "watermark" /\ ~x.st.is_pro /\ ~x.q.auth
                       /\ x.st.guest_count >= FREE_LIMIT
    \/ r = "none"

\* C8: when a step of generate_pptx fails, the answer is exactly status
\* "error" with a message, at HTTP 200; the answer is status "success" only
\* when the document was saved and the history entry was pushed, trimmed and
\* given its expiry.
C8_ErrorEnvelope ==
    [][ HandlerStep =>
          LET x == last'.x
              out == generate_pptx(x, last'.body, last'.tpl, last'.fault)
              failed == StepFails(x, last'.body, last'.tpl, last'.fault)
          IN /\ last'.status_code = 200
             /\ last'.status \in {"success", "error"}
             /\ failed => /\ last'.status = "error"
                          /\ DOMAIN out.resp = {"status", "message"}
                          /\ out.resp.status = "error"
             /\ last'.status = "success"
                  => /\ ~failed
                     /\ last'.saved
                     /\ Exists(history', out.user_id)
                     /\ Head(history'[out.user_id].val).url
                            = out.resp.downloadUrl
                     /\ Len(history'[out.user_id].val)
                            <= IF x.st.is_pro THEN MAX_HISTORY_PRO
                               ELSE MAX_HISTORY_GUEST
                     /\ history'[out.user_id].ttl
                            = IF x.st.is_pro THEN HISTORY_TTL_PRO
                              ELSE HISTORY_TTL_GUEST
      ]_vars

\* A generation failed at the history write after the document was saved,
\* and was answered with status "error".
C8_Witness ==
    /\ last.op = "generate"
    /\ last.status = "error"
    /\ last.saved
    /\ r = "client"
    /\ last.fault \in {"lpush", "ltrim", "expire"}
    /\ last.doc # <<>>

\* C9: after a completed generation the identity's history list has at most
\* 3 entries when the caller was handled as a guest and at most 50 when paid,
\* its first entry is that generation's, and the entries after it are the
\* earlier ones in their order; the entries of every list are in
\* most-recent-first order.
C9_HistoryCapped ==
    /\ [][ (HandlerStep /\ last'.status = "success") =>
             LET x == last'.x
                 out == generate_pptx(x, last'.body, last'.tpl, last'.fault)
                 new == history'[out.user_id].val
                 old == IF Exists(history, out.user_id)
                        THEN history[out.user_id].val ELSE <<>>
             IN /\ Exists(history', out.user_id)
                /\ Len(new) <= IF x.st.is_pro THEN 50 ELSE 3
                /\ Len(new) >= 1
                /\ new[1].created = now
                /\ new[1].url = out.resp.downloadUrl
                /\ Tail(new) = Take(old, Len(new) - 1)
         ]_vars
    /\ [](\A k \in DOMAIN history :
             \A i, j \in 1..Len(history[k].val) :
                 i < j => history[k].val[i].created
                            >= history[k].val[j].created)

\* A guest's generation completed on a list that held 3 entries or more: the
\* list holds 3, the new entry first and the two most recent old ones after.
C9_Witness ==
    /\ last.op = "generate"
    /\ last.status = "success"
    /\ Exists(history, U1)
    /\ ~last.x.st.is_pro
    /\ Len(history[U1].val) = 3
    /\ history[U1].val[1].created = now
    /\ history[U1].val[3].created = 0 - 2
    /\ now > 0

\* C10: with a secret configured, a webhook request whose Authorization
\* header is missing or is not "Bearer <secret>" is answered 401 and changes
\* no entitlement record.
C10_SecretRequired ==
    [][ WebhookStep =>
          \A h \in AuthHeaders, p \in Payloads, f \in BOOLEAN :
              (/\ Webhook(h, p, f)
               /\ secret # <<>>
               /\ h # <<BEARER>> \o secret)
              => /\ last'.status_code = 401
                 /\ pro' = pro
      ]_vars

\* The overlay text boxes of a slide.
Overlays(slide) ==
    {i \in 1..Len(slide.shapes) :
        /\ slide.shapes[i].name = "watermark"
        /\ slide.shapes[i].paragraphs # <<>>
        /\ slide.shapes[i].paragraphs[1].text = WATERMARK_TEXT}

\* C11: a saved document of a request admitted as not paid with a count at
\* or beyond FREE_LIMIT has exactly one overlay text box on every slide, the
\* slides being the bound ones without the exemplars; a saved document of a
\* paid caller or of a caller below the limit has no overlay on any slide.
C11_WatermarkPass ==
    [][ (HandlerStep /\ last'.saved /\ Len(last'.tpl) = 2) =>
          LET x == last'.x
              doc == last'.doc
          IN /\ (~x.st.is_pro /\ x.st.guest_count >= FREE_LIMIT)
                => /\ Len(doc) = Len(last'.body.slides)
                   /\ \A i \in 1..Len(doc) :
                         /\ Cardinality(Overlays(doc[i])) = 1
                         /\ doc[i].origin = <<"spec", i>>
             /\ (x.st.is_pro \/ x.st.guest_count < FREE_LIMIT)
                => \A i \in 1..Len(doc) : Overlays(doc[i]) = {}
      ]_vars

----------------------------------------------------------------------------
(* The fingerprint function on pairs of calls *)

\* A user-agent of n characters ending in `tail`.
LongUA(n, tail) == [i \in 1..n |-> IF i = n THEN tail ELSE "a"]

\* The addresses and user-agents of the calls: an address and its
\* IPv4-mapped form, IPv6 addresses (with colons), user-agents shorter and
\* longer than the cut.
CallIPs ==
    { IP1, IP2, <<"::ffff:">> \o IP1, <<"::1">>, <<"::1", ":", "2">> }
CallUAs ==
    { UA1, <<"curl">>, <<"2", ":", "curl">>,
      LongUA(UA_MAX, "x"), LongUA(UA_MAX + 1, "x"), LongUA(UA_MAX + 1, "y") }
Calls == [ip : CallIPs, ua : CallUAs]

\* No request, event or time step is left to the other actions.
Idle ==
    /\ r = "client"
    /\ secret = SECRET
    /\ pro = <<>>
    /\ guest = <<>>
    /\ history = <<>>
    /\ inflight = {}
    /\ now = 0
    /\ nreq = MaxRequests
    /\ nev = MaxEvents
    /\ nelapse = MaxElapse

InitFingerprint ==
    /\ Idle
    /\ last \in [op : {"calls"}, a : Calls, b : Calls]

\* create_guest_id runs on the two calls.
Fingerprint ==
    /\ last.op = "calls"
    /\ last' = [op |-> "fingerprint", a |-> last.a, b |-> last.b,
                fa |-> create_guest_id(last.a.ip, last.a.ua),
                fb |-> create_guest_id(last.b.ip, last.b.ua)]
    /\ UNCHANGED <<r, secret, pro, guest, history, inflight, now, nreq, nev,
                   nelapse>>

NextFingerprint == Fingerprint

SpecFingerprint == InitFingerprint /\ [][NextFingerprint]_vars

\* C12: two calls with the same address and user-agent have the same
\* fingerprint, and two calls whose addresses differ or whose user-agents
\* differ have different fingerprints.
C12_FingerprintInjective ==
    last.op = "fingerprint"
    => /\ (last.a = last.b) => last.fa = last.fb
       /\ (last.a.ip # last.b.ip \/ last.a.ua # last.b.ua)
            => last.fa # last.fb

----------------------------------------------------------------------------
(* The binder on one slide and one slide spec *)

MaxParas == 3
MaxContent == 3

\* m paragraphs as a text frame holds them before binding.
OrigParas(m) == [n \in 1..m |-> Para("old", 1, TRUE, n)]

\* The shape trees of the slides: without a text shape, with one, with a
\* title and a body of m paragraphs in either tree order, with equal tops,
\* with a picture above and a third text shape below.
SlideShapes ==
    { <<>>, <<Picture("pic", 5)>> }
    \cup { <<TextShape("title", 10, OrigParas(m))>> : m \in 1..MaxParas }
    \cup { <<TextShape("body", 30, OrigParas(m)),
             TextShape("title", 10, OrigParas(1))>> : m \in 1..MaxParas }
    \cup { <<TextShape("title", 10, OrigParas(1)),
             TextShape("body", 10, OrigParas(m))>> : m \in 1..MaxParas }
    \cup { <<Picture("pic", 5), TextShape("footer", 50, OrigParas(1)),
             TextShape("body", 30, OrigParas(m)),
             TextShape("title", 10, OrigParas(1))>> : m \in 1..MaxParas }

Contents == UNION {[1..k -> {"a", "b"}] : k \in 0..MaxContent}

SlideSpecs ==
    { SlideSpec("T", type, format, content) :
        type \in {"title", "content"}, format \in {"bullets", "paragraph"},
        content \in Contents }

InitBinder ==
    /\ Idle
    /\ last \in [op : {"slide"}, shapes : SlideShapes, slide_data : SlideSpecs]

\* add_slide_content runs on the slide.
Bind ==
    /\ last.op = "slide"
    /\ \E out \in {add_slide_content(last.shapes, last.slide_data)} :
          last' = [op |-> "bound", before |-> last.shapes,
                   slide_data |-> last.slide_data, raised |-> out.raised,
                   shapes |-> out.shapes]
    /\ UNCHANGED <<r, secret, pro, guest, history, inflight, now, nreq, nev,
                   nelapse>>

NextBinder == Bind

SpecBinder == InitBinder /\ [][NextBinder]_vars

\* The slide of `last` has a title and a body, and its spec is of the
\* content kind with the given format.
BoundContent(format) ==
    /\ last.op = "bound"
    /\ last.slide_data.type # "title"
    /\ last.slide_data.format = format
    /\ \E i \in 1..Len(last.before) : last.before[i].name = "body"

\* The paragraphs of the body after binding.
BodyAfter ==
    last.shapes[CHOOSE i \in 1..Len(last.shapes) :
                    last.shapes[i].name = "body"].paragraphs

\* The paragraphs are the k content elements in order at level 0, the first
\* in the original first paragraph and the others in new paragraphs.
IsBulletList(paras, content) ==
    /\ Len(paras) = Len(content)
    /\ \A j \in 1..Len(paras) :
          /\ paras[j].text = content[j]
          /\ paras[j].level = 0
          /\ (j = 1) => (paras[j].orig /\ paras[j].n = 1)
          /\ (j > 1) => ~paras[j].orig

\* C13 as stated: binding a bullets content spec of k elements leaves the
\* body with exactly k paragraphs, the content elements in order at level 0,
\* the first being the original first paragraph and no other original
\* paragraph remaining.
C13_BulletsAsStated ==
    (BoundContent("bullets") /\ ~last.raised)
    => IsBulletList(BodyAfter, last.slide_data.content)

\* C13, amended: the same for k >= 1; with k = 0 the body is left with its
\* original first paragraph alone, text and level as they were.
C13_Bullets ==
    (BoundContent("bullets"))
    => /\ ~last.raised
       /\ Len(last.slide_data.content) >= 1
            => IsBulletList(BodyAfter, last.slide_data.content)
       /\ Len(last.slide_data.content) = 0
            => BodyAfter = <<Para("old", 1, TRUE, 1)>>

\* MaxContent bullets were bound on a body of MaxParas paragraphs.
C13_Witness ==
    /\ BoundContent("bullets")
    /\ Len(last.slide_data.content) = MaxContent
    /\ Len(BodyAfter) = MaxContent
    /\ \E i \in 1..Len(last.before) :
          /\ last.before[i].name = "body"
          /\ Len(last.before[i].paragraphs) = MaxParas

\* C14: binding a paragraph content spec with at least one content element
\* leaves the body with exactly one paragraph, the original first one, at
\* level 0, its text the first content element; the other content elements
\* are not written and no other original paragraph remains.
C14_Paragraph ==
    (BoundContent("paragraph") /\ Len(last.slide_data.content) >= 1)
    => /\ ~last.raised
       /\ BodyAfter = <<Para(last.slide_data.content[1], 0, TRUE, 1)>>

\* A paragraph spec of MaxContent elements was bound on a body of MaxParas
\* paragraphs.
C14_Witness ==
    /\ BoundContent("paragraph")
    /\ ~last.raised
    /\ Len(last.slide_data.content) = MaxContent
    /\ Len(BodyAfter) = 1
    /\ \E i \in 1..Len(last.before) :
          /\ last.before[i].name = "body"
          /\ Len(last.before[i].paragraphs) = MaxParas

\* C15: an INITIAL_PURCHASE the handler accepts, the store answering, leaves
\* an existing record as it is, whatever the product; on an absent record it
\* stores "lifetime" without expiry for a one-time product and
\* "subscription" with the one-year expiry otherwise; and the same
\* INITIAL_PURCHASE applied right after itself changes nothing.
C15_InitialPurchaseIdempotent ==
    [][ WebhookStep =>
          \A p \in Payloads :
              (/\ Webhook(<<BEARER>> \o SECRET, p, FALSE)
               /\ r = "client"
               /\ p.type = "INITIAL_PURCHASE"
               /\ p.app_user_id # <<>>)
              => /\ Exists(pro, p.app_user_id) => pro' = pro
                 /\ ~Exists(pro, p.app_user_id)
                      => /\ Exists(pro', p.app_user_id)
                         /\ pro'[p.app_user_id] =
                              IF IsLifetimeProduct(p.product_id)
                              THEN [val |-> "lifetime", ttl |-> NO_EXPIRY]
                              ELSE [val |-> "subscription", ttl |-> PRO_TTL]
                 /\ (/\ Trail # <<>>
                     /\ last.op = "webhook"
                     /\ Trail[1] = BillingEntry(p, pro)
                     /\ Exists(pro, p.app_user_id))
                      => pro' = pro
      ]_vars

\* The events whose type is none of the four that touch a record.
OtherEvents == {p \in Payloads : p.event /\ p.type \notin StoreEventTypes}

\* The handler runs on an event of another type: accepted, the store client
\* present, type and identity given.
OtherEventHandled(p) ==
    /\ Webhook(<<BEARER>> \o SECRET, p, FALSE)
    /\ r = "client"
    /\ p.type # ""
    /\ p.app_user_id # <<>>

\* C16 as stated: an event whose type is none of INITIAL_PURCHASE, RENEWAL,
\* CANCELLATION, EXPIRATION changes no entitlement record, guest counter or
\* history list and is answered "ok".
C16_UnknownTypeAsStated ==
    [][ WebhookStep =>
          \A p \in OtherEvents :
              OtherEventHandled(p)
              => /\ pro' = pro /\ guest' = guest /\ history' = history
                 /\ last'.status = "ok"
      ]_vars

\* C16, amended: such an event changes no entitlement record, guest counter
\* or history list; it is answered "test_success" when its type is TEST and
\* "ok" otherwise.
C16_UnknownType ==
    [][ WebhookStep =>
          \A p \in OtherEvents :
              OtherEventHandled(p)
              => /\ pro' = pro /\ guest' = guest /\ history' = history
                 /\ last'.status_code = 200
                 /\ last'.status = IF p.type = "TEST" THEN "test_success"
                                   ELSE "ok"
      ]_vars

\* An event of an unknown type was answered "ok" with a record in the store.
C16_Witness ==
    /\ last.op = "webhook"
    /\ last.status = "ok"
    /\ Len(last.trail) >= 1
    /\ last.trail[1].type = "BILLING_ISSUE"
    /\ Exists(pro, U1)

----------------------------------------------------------------------------
(* The guard under concurrency: the requests of one guest fingerprint, each
   store call of the middleware a step of its own.  inflight holds every
   request that arrived, with its position: "incr", "expire", "decide",
   "admitted" (call_next) or "rejected" (402). *)

MaxRacers == 2

\* Variant of IncrAtomic: the count is read and written back by two
\* commands.
IncrSplit == FALSE

\* r.incr is one command of the store: it adds and returns the new value
\* with no other command in between.
IncrAtomic == TRUE

RaceRequest == [rc |-> <<>>, ip |-> IP1, ua |-> UA1, auth |-> FALSE]
RaceKey == create_guest_id(RaceRequest.ip, RaceRequest.ua)

\* The requests still inside the middleware.
Racing == {x \in inflight : x.pc \in {"incr", "expire", "decide"}}

\* How many times the counter key was created so far.
Lives == IF last.op = "race" THEN last.lives ELSE 0

InitRace ==
    /\ r = "client"
    /\ secret = SECRET
    /\ pro = <<>>
    /\ guest = <<>>
    /\ history = <<>>
    /\ inflight = {}
    /\ now = 0
    /\ last = [op |-> "race", lives |-> 0]
    /\ nreq = 0
    /\ nev = MaxEvents
    /\ nelapse = 0

\* A request of the fingerprint enters the middleware; it sends no identity
\* header, so the next call is r.incr.
GuardArrive ==
    /\ nreq < MaxRequests
    /\ Cardinality(Racing) < MaxRacers
    /\ nreq' = nreq + 1
    /\ inflight' = inflight \cup
          {[id |-> nreq + 1, q |-> RaceRequest, pc |-> "incr", seen |-> -1,
            count |-> 0, life |-> 0]}
    /\ UNCHANGED <<r, secret, pro, guest, history, now, last, nev, nelapse>>

\* count = r.incr(f"guest:{guest_id}")
GuardIncr(x) ==
    /\ x.pc = "incr"
    /\ IF IncrAtomic
       THEN /\ guest' = Incr(guest, RaceKey)
            /\ last' = [op |-> "race",
                        lives |-> IF Exists(guest, RaceKey) THEN Lives
                                  ELSE Lives + 1]
            /\ inflight' = (inflight \ {x}) \cup
                  {[x EXCEPT !.pc = "expire",
                             !.count = guest'[RaceKey].val,
                             !.life = last'.lives]}
       ELSE IF x.seen = -1
       THEN /\ inflight' = (inflight \ {x}) \cup
                  {[x EXCEPT !.seen = IF Exists(guest, RaceKey)
                                      THEN guest[RaceKey].val ELSE 0]}
            /\ UNCHANGED <<guest, last>>
       ELSE /\ guest' = Put(guest, RaceKey,
                            [val |-> x.seen + 1,
                             ttl |-> IF Exists(guest, RaceKey)
                                     THEN guest[RaceKey].ttl ELSE NO_EXPIRY])
            /\ last' = [op |-> "race",
                        lives |-> IF Exists(guest, RaceKey) THEN Lives
                                  ELSE Lives + 1]
            /\ inflight' = (inflight \ {x}) \cup
                  {[x EXCEPT !.pc = "expire", !.count = x.seen + 1,
                             !.life = last'.lives]}
    /\ UNCHANGED <<r, secret, pro, history, now, nreq, nev, nelapse>>

\* r.expire(f"guest:{guest_id}", 2592000)
GuardExpire(x) ==
    /\ x.pc = "expire"
    /\ guest' = Expire(guest, RaceKey, GUEST_TTL)
    /\ inflight' = (inflight \ {x}) \cup {[x EXCEPT !.pc = "decide"]}
    /\ UNCHANGED <<r, secret, pro, history, now, last, nreq, nev, nelapse>>

\* if count > FREE_LIMIT: 402, else call_next
GuardDecide(x) ==
    /\ x.pc = "decide"
    /\ inflight' = (inflight \ {x}) \cup
          {[x EXCEPT !.pc = IF OverLimit(x.count) THEN "rejected"
                            ELSE "admitted"]}
    /\ UNCHANGED <<r, secret, pro, guest, history, now, last, nreq, nev,
                   nelapse>>

\* The counter's expiry time passes.
RaceElapse ==
    /\ nelapse < MaxElapse
    /\ nelapse' = nelapse + 1
    /\ now' = now + GUEST_TTL
    /\ guest' = Age(guest, GUEST_TTL)
    /\ UNCHANGED <<r, secret, pro, history, inflight, last, nreq, nev>>

NextRace ==
    \/ GuardArrive
    \/ \E x \in inflight : GuardIncr(x)
    \/ \E x \in inflight : GuardExpire(x)
    \/ \E x \in inflight : GuardDecide(x)
    \/ RaceElapse

SpecRace == InitRace /\ [][NextRace]_vars

\* The requests that got their count during the given life of the key.
CountedIn(life) == {x \in inflight : x.pc # "incr" /\ x.life = life}

\* C17: however the requests of one fingerprint interleave, two requests
\* counted during the same life of the counter key got different counts,
\* and at most FREE_LIMIT of them are admitted.
C17_DistinctCounts ==
    \A life \in 1..Lives :
        /\ \A x, y \in CountedIn(life) : x # y => x.count # y.count
        /\ Cardinality({x \in CountedIn(life) : x.pc = "admitted"})
              <= FREE_LIMIT

\* Two requests were inside the middleware together, both past r.incr in the
\* same life of the key; one was admitted and one rejected.
C17_Witness ==
    \E x, y \in inflight :
        /\ x.life = y.life /\ x.life >= 1
        /\ x.pc = "admitted" /\ y.pc = "rejected"
        /\ x.id > y.id

----------------------------------------------------------------------------
(* The webhook under concurrency: billing events for one identity, each
   store call of a handler a step of its own.  inflight holds every event
   that arrived, with its handler's position: "call1" (before the first
   store call of its branch), "call2" (between the check and the update),
   "ok" or "error" (answered). *)

MaxBillers == 3

RaceEvents ==
    {Event("INITIAL_PURCHASE", U1, p) :
        p \in {<<"PRO", "_", "LIFETIME">>, <<"pro", "_", "monthly">>}}
    \cup {Event(t, U1, <<>>) : t \in {"RENEWAL", "CANCELLATION", "EXPIRATION"}}

\* The event type whose handler wrote the identity's record last.
WrittenBy == IF last.op = "billing" THEN last.by ELSE "none"

InitBillingRace ==
    /\ r = "client"
    /\ secret = SECRET
    /\ pro \in InitialRecords
    /\ guest = <<>>
    /\ history = <<>>
    /\ inflight = {}
    /\ now = 0
    /\ last = [op |-> "billing", by |-> "none"]
    /\ nreq = MaxRequests
    /\ nev = 0
    /\ nelapse = MaxElapse

\* An accepted event reaches the try block of its handler.
EventArrive(p) ==
    /\ nev < MaxBillers
    /\ nev' = nev + 1
    /\ inflight' = inflight \cup
          {[id |-> nev + 1, type |-> p.type, product_id |-> p.product_id,
            pc |-> "call1"]}
    /\ UNCHANGED <<r, secret, pro, guest, history, now, last, nreq, nelapse>>

\* Where a handler is after `await v`.
After(awaited, next) == IF awaited.raised THEN "error" ELSE next

\* The handler of event x makes its next store call and awaits the result.
EventStep(x) ==
    /\ x.pc \in {"call1", "call2"}
    /\ \E out \in {
          CASE x.type = "INITIAL_PURCHASE" /\ x.pc = "call1" ->
                 LET ex == Await(Exists(pro, U1)) IN
                 [pro |-> pro, by |-> WrittenBy,
                  pc |-> After(ex, IF ~ex.value THEN "call2" ELSE "ok")]
            [] x.type = "INITIAL_PURCHASE" /\ x.pc = "call2" ->
                 [pro |-> IF IsLifetimeProduct(x.product_id)
                          THEN Set(pro, U1, "lifetime")
                          ELSE Setex(pro, U1, PRO_TTL, "subscription"),
                  by |-> x.type, pc |-> After(Await(TRUE), "ok")]
            [] x.type = "RENEWAL" ->
                 [pro |-> Setex(pro, U1, PRO_TTL, "subscription"),
                  by |-> x.type, pc |-> After(Await(TRUE), "ok")]
            [] x.type = "CANCELLATION" /\ x.pc = "call1" ->
                 LET status == Await(Get(pro, U1)) IN
                 [pro |-> pro, by |-> WrittenBy,
                  pc |-> After(status, IF status.value = "subscription"
                                       THEN "call2" ELSE "ok")]
            [] x.type = "CANCELLATION" /\ x.pc = "call2" ->
                 [pro |-> Del(pro, U1), by |-> WrittenBy,
                  pc |-> After(Await(1), "ok")]
            [] OTHER ->
                 [pro |-> Del(pro, U1), by |-> WrittenBy,
                  pc |-> After(Await(1), "ok")] } :
          /\ pro' = out.pro
          /\ last' = [op |-> "billing", by |-> out.by]
          /\ inflight' = (inflight \ {x}) \cup {[x EXCEPT !.pc = out.pc]}
    /\ UNCHANGED <<r, secret, guest, history, now, nreq, nev, nelapse>>

NextBillingRace ==
    \/ \E p \in RaceEvents : EventArrive(p)
    \/ \E x \in inflight : EventStep(x)

SpecBillingRace == InitBillingRace /\ [][NextBillingRace]_vars

----------------------------------------------------------------------------
(* Placeholder roles *)

\* The indices of the shapes of a slide that have a text frame.
TextBearing(shapes) == {i \in 1..Len(shapes) : shapes[i].has_text_frame}

\* Shape i has the smallest vertical offset among the shapes in `among`.
Topmost(shapes, i, among) ==
    i \in among /\ \A j \in among : shapes[i].top <= shapes[j].top

\* C19: binding gives the roles by vertical order alone.  spec.title goes
\* into the first paragraph of the text-bearing shape with the smallest
\* offset and nothing else of that shape changes; the body or subtitle goes
\* into the text-bearing shape with the second smallest offset; every other
\* shape, with a text frame or without, stays as it was.  For a title-kind
\* spec the second shape's first paragraph receives exactly the first
\* content element, whatever the format, and the second shape is left alone
\* when content is empty.  A slide with no text-bearing shape is returned
\* unchanged and no error is raised.
C19_RolesByVerticalOrder ==
    last.op = "bound" =>
      LET before == last.before
          after == last.shapes
          data == last.slide_data
          T == TextBearing(before)
      IN
      /\ T = {} => (~last.raised /\ after = before)
      /\ ~last.raised =>
           /\ Len(after) = Len(before)
           /\ \A i \in 1..Len(before) : i \notin T => after[i] = before[i]
           /\ T # {} =>
                \E f \in T :
                  /\ Topmost(before, f, T)
                  /\ after[f] = SetFirstText(before[f], data.title)
                  /\ Cardinality(T) >= 2 =>
                       \E s \in T \ {f} :
                         /\ Topmost(before, s, T \ {f})
                         /\ \A i \in T \ {f, s} : after[i] = before[i]
                         /\ (data.type = "title" /\ data.content # <<>>)
                            => after[s] = SetFirstText(before[s],
                                                       data.content[1])
                         /\ (data.type = "title" /\ data.content = <<>>)
                            => after[s] = before[s]
                         /\ (data.type # "title" /\ data.content # <<>>)
                            => after[s].paragraphs[1].text = data.content[1]

\* A title-kind spec tagged "paragraph" with two content elements was bound
\* to the slide whose tree holds a picture, a footer, the body and the title
\* in that order: the title and the subtitle went by offset, the footer and
\* the picture are as they were.
C19_Witness ==
    /\ last.op = "bound"
    /\ ~last.raised
    /\ last.slide_data.type = "title"
    /\ last.slide_data.format = "paragraph"
    /\ Len(last.slide_data.content) = 2
    /\ Len(last.before) = 4
    /\ Len(last.before[3].paragraphs) = 2
    /\ last.shapes[4].paragraphs[1].text = last.slide_data.title
    /\ last.shapes[3].paragraphs[1].text = last.slide_data.content[1]
    /\ last.shapes[3].paragraphs[2] = last.before[3].paragraphs[2]
    /\ last.shapes[2] = last.before[2]
    /\ last.shapes[1] = last.before[1]

----------------------------------------------------------------------------
(* History query: GET /api/ppt-history.  The store holds the lists earlier
   generations wrote, some with items that are not JSON; callers generate
   and query in any order. *)

\* The last index of r.lrange(history_key, 0, 9)
LRANGE_STOP == 9

\* r.lrange(key, 0, stop): the elements 0..stop of the list, none for an
\* absent key
LRange(store, k, stop) ==
    IF Exists(store, k) THEN Take(store[k].val, stop + 1) ELSE <<>>

\* A stored item whose bytes are not JSON.
Corrupt(k) == [corrupt |-> k]

\* json.loads(item.decode('utf-8', errors='ignore')): the entry, or
\* JSONDecodeError
Loads(item) ==
    IF "corrupt" \in DOMAIN item THEN [raised |-> TRUE, value |-> <<>>]
    ELSE [raised |-> FALSE, value |-> item]

RECURSIVE ParseAll_break(_, _)
\* Variant of ParseAll: the loop ends at the first item that does not parse.
ParseAll_break(history_raw, i) ==
    IF i > Len(history_raw) THEN <<>>
    ELSE IF Loads(history_raw[i]).raised THEN <<>>
    ELSE <<Loads(history_raw[i]).value>> \o ParseAll_break(history_raw, i + 1)

RECURSIVE ParseAll(_, _)
\* for item in history_raw: append the parsed item, `continue` on a bad one
ParseAll(history_raw, i) ==
    IF i > Len(history_raw) THEN <<>>
    ELSE IF Loads(history_raw[i]).raised THEN ParseAll(history_raw, i + 1)
    ELSE <<Loads(history_raw[i]).value>> \o ParseAll(history_raw, i + 1)

EmptyHistory == [ppt_history |-> <<>>, count |-> 0]

\* Where get_ppt_history may be made to raise: r.lrange with a RedisError,
\* or any other statement with another exception.
QueryFaults == {"none", "lrange", "other"}

\* get_ppt_history(request): the status code and the body of the answer.
get_ppt_history(q, fault) ==
    LET history_key == IF q.rc # <<>> THEN q.rc
                       ELSE create_guest_id(q.ip, q.ua)
        ppt_list == ParseAll(LRange(history, history_key, LRANGE_STOP), 1)
    IN
    IF fault = "other"
    THEN [status_code |-> 500,
          body |-> [detail |-> "History service temporarily unavailable"]]
    ELSE IF r = "none" THEN [status_code |-> 200, body |-> EmptyHistory]
    ELSE IF fault = "lrange" THEN [status_code |-> 200, body |-> EmptyHistory]
    ELSE [status_code |-> 200,
          body |-> [ppt_history |-> ppt_list, count |-> Len(ppt_list)]]

\* A caller asks for the history.
Query(q, fault) ==
    /\ \E out \in {get_ppt_history(q, fault)} :
          last' = [op |-> "query", status_code |-> out.status_code,
                   body |-> out.body, q |-> q, fault |-> fault]
    /\ UNCHANGED <<r, secret, pro, guest, history, inflight, now, nreq, nev,
                   nelapse>>

\* n stored items of the paying caller, newest first, those in `bad` not
\* JSON.
Stored(n, bad) ==
    Put(<<>>, U1, [val |-> [k \in 1..n |-> IF k \in bad THEN Corrupt(k)
                                           ELSE OldEntry(k)],
                   ttl |-> HISTORY_TTL_PRO])

StoredHistories ==
    {<<>>} \cup
    { Stored(n, bad \cap 1..n) :
        n \in {LRANGE_STOP, LRANGE_STOP + 1, LRANGE_STOP + 3},
        bad \in {{}, {1}, {2, LRANGE_STOP + 1}, {LRANGE_STOP + 2}} }

InitQuery ==
    /\ r \in {"client", "none"}
    /\ secret = SECRET
    /\ pro = Set(<<>>, U1, "lifetime")
    /\ guest = <<>>
    /\ history \in StoredHistories
    /\ inflight = {}
    /\ now = 0
    /\ last = [op |-> "init"]
    /\ nreq = 0
    /\ nev = MaxEvents
    /\ nelapse = 0

QueryCallers ==
    { [rc |-> U1, ip |-> IP1, ua |-> UA1, auth |-> FALSE],
      [rc |-> <<>>, ip |-> IP1, ua |-> UA1, auth |-> FALSE] }

NextQuery ==
    \/ \E q \in QueryCallers : Middleware(q, "none")
    \/ \E x \in inflight :
          Handler(x, Body("swiss", <<TitleSpec>>), Template2, "none")
    \/ Elapse(HISTORY_STEP)
    \/ \E q \in QueryCallers, fault \in QueryFaults : Query(q, fault)

SpecQuery == InitQuery /\ [][NextQuery]_vars

\* The list stored for the identity of caller q.
StoredFor(q) ==
    LET k == IF q.rc # <<>> THEN q.rc ELSE create_guest_id(q.ip, q.ua)
    IN IF Exists(history, k) THEN history[k].val ELSE <<>>

\* The positions of a stored list that hold JSON.
Parseable(items) == {i \in 1..Len(items) : "corrupt" \notin DOMAIN items[i]}

\* C20: a history query answers with the parseable ones among the 10 items
\* at the head of the caller's list, in stored order, which is newest first:
\* at most 10 entries, none older than an entry left out for the limit,
\* count being their number; an item that does not parse is left out and the
\* others keep their order.  When the store is absent or the store call
\* fails the answer is the empty history with count 0, not an error.
C20_HistoryQuery ==
    (last.op = "query" /\ last.fault # "other") =>
      LET S == StoredFor(last.q)
          G == {i \in Parseable(S) : i <= LRANGE_STOP + 1}
          out == last.body
          nth(j) == CHOOSE i \in G : Cardinality({g \in G : g < i}) = j - 1
      IN
      /\ last.status_code = 200
      /\ out.count = Len(out.ppt_history)
      /\ out.count <= LRANGE_STOP + 1
      /\ (r = "none" \/ last.fault = "lrange") => out = EmptyHistory
      /\ (r = "client" /\ last.fault = "none") =>
           /\ out.count = Cardinality(G)
           /\ \A j \in 1..out.count : out.ppt_history[j] = S[nth(j)]
           /\ \A i, j \in 1..out.count :
                 i < j => out.ppt_history[i].created
                            >= out.ppt_history[j].created
           /\ \A i \in Parseable(S) \ G : \A j \in 1..out.count :
                 S[i].created <= out.ppt_history[j].created

\* The paying caller generated once on top of 10 stored items, the second
\* and the tenth not JSON, and then asked: of the 11 items the answer holds
\* 9, the new entry first.
C20_Witness ==
    /\ last.op = "query"
    /\ last.fault = "none"
    /\ r = "client"
    /\ Len(StoredFor(last.q)) = LRANGE_STOP + 2
    /\ 3 \notin Parseable(StoredFor(last.q))
    /\ last.body.count = LRANGE_STOP
    /\ last.body.ppt_history[1].created >= 0
    /\ last.body.ppt_history[2].created < 0

----------------------------------------------------------------------------
(* The guest counter over the whole system: paid and non-paid requests from
   one fingerprint, generations that succeed or fail, billing events that
   make the caller paid and non-paid, and time passing, by a minute or by
   the counter's whole expiry. *)

CounterCallers ==
    { [rc |-> <<>>, ip |-> IP1, ua |-> UA1, auth |-> FALSE],
      [rc |-> U1, ip |-> IP1, ua |-> UA1, auth |-> FALSE] }

\* The counter key of the callers.
CounterKey == create_guest_id(IP1, UA1)

\* The events that write and that delete the entitlement record.
CounterEvents == {Event(t, U1, <<>>) : t \in {"RENEWAL", "EXPIRATION"}}

InitCounter ==
    /\ r = "client"
    /\ secret = SECRET
    /\ pro \in {<<>>, Set(<<>>, U1, "lifetime")}
    /\ guest = <<>>
    /\ history = <<>>
    /\ inflight = {}
    /\ now = 0
    /\ last = [op |-> "init"]
    /\ nreq = 0
    /\ nev = 0
    /\ nelapse = 0

NextCounter ==
    \/ \E q \in CounterCallers : Middleware(q, "none")
    \/ \E x \in inflight, fault \in {"none", "save"} :
          Handler(x, Body("swiss", <<TitleSpec>>), Template2, fault)
    \/ \E p \in CounterEvents : Webhook(<<BEARER>> \o SECRET, p, FALSE)
    \/ \E d \in {HISTORY_STEP, GUEST_TTL} : Elapse(d)

SpecCounter == InitCounter /\ [][NextCounter]_vars

\* The step is time passing.
ElapseStep == nelapse' = nelapse + 1

\* C21: with the store answering, a generate request of a non-paid caller
\* creates the counter of its fingerprint at 1 when there is none and adds
\* exactly 1 to it otherwise, and leaves it with the full 30-day expiry,
\* whether the request is then admitted or rejected; the endpoint (its
\* generation succeeding or failing), a paid request and a billing event
\* leave the counters as they are, and the passing of time changes no value
\* and only lets a key expire.  So as long as no caller was paid and no
\* counter had the time to expire, the counter equals the number of generate
\* requests received, and it never exceeds that number.
C21_CounterCounts ==
    /\ [](Exists(guest, CounterKey) =>
            /\ guest[CounterKey].val <= nreq
            /\ guest[CounterKey].val >= 1
            /\ (pro = <<>> /\ nev = 0 /\ now < GUEST_TTL)
                 => guest[CounterKey].val = nreq)
    /\ [][ /\ (GuardStep /\ ~(last'.q.rc # <<>> /\ Exists(pro, last'.q.rc)))
              => LET k == create_guest_id(last'.q.ip, last'.q.ua) IN
                 /\ Exists(guest', k)
                 /\ guest'[k].val = IF Exists(guest, k)
                                    THEN guest[k].val + 1 ELSE 1
                 /\ guest'[k].ttl = GUEST_TTL
                 /\ \A g \in (DOMAIN guest \cup DOMAIN guest') \ {k} :
                       g \in DOMAIN guest /\ g \in DOMAIN guest'
                         /\ guest'[g] = guest[g]
           /\ (GuardStep /\ last'.q.rc # <<>> /\ Exists(pro, last'.q.rc))
              => guest' = guest
           /\ (HandlerStep \/ WebhookStep) => guest' = guest
           /\ ElapseStep
              => \A g \in DOMAIN guest' :
                    g \in DOMAIN guest /\ guest'[g].val = guest[g].val
         ]_vars

\* Three non-paid requests came from the fingerprint: the first was admitted
\* and its generation failed (nothing is in the history), a minute passed,
\* the third has just been rejected, and the counter is 3 with its full
\* expiry.
C21_Witness ==
    /\ last.op = "guard"
    /\ last.status_code = 402
    /\ nreq = 3
    /\ Exists(guest, CounterKey)
    /\ guest[CounterKey].val = 3
    /\ guest[CounterKey].ttl = GUEST_TTL
    /\ now = HISTORY_STEP
    /\ inflight = {}
    /\ history = <<>>

====
